---- MODULE Spec2Model ----
(***************************************************************************)
(* Model of zipline.finance.commission and zipline.finance.slippage.      *)
(*                                                                         *)
(* Money is counted in whole cents and prices in whole ticks, so that the  *)
(* arithmetic of the source (Python floats) is exact integer or rational   *)
(* arithmetic here.  Rounding error of the floats is outside the model.    *)
(***************************************************************************)
EXTENDS Integers, Sequences, FiniteSets, TLC

(***************************************************************************)
(* Bounds of the model.                                                    *)
(***************************************************************************)
\* largest |order.amount| of the order of the commission specification
MaxAmount == 3

(***************************************************************************)
(* Arithmetic helpers (Python builtins abs, max, min).                     *)
(***************************************************************************)
Abs(x) == IF x < 0 THEN -x ELSE x

Max(a, b) == IF a >= b THEN a ELSE b

Min(a, b) == IF a <= b THEN a ELSE b

\* math.copysign(m, direction) for a magnitude m >= 0 and direction in {-1, 1}
CopySign(m, direction) == IF direction < 0 THEN -m ELSE m

RECURSIVE SeqSum(_)
SeqSum(s) == IF s = <<>> THEN 0 ELSE Head(s) + SeqSum(Tail(s))

(***************************************************************************)
(* State.  The module holds six specifications, each over its own         *)
(* variables; the variables of the others keep their initial values.       *)
(***************************************************************************)
VARIABLES
    \* the ledger feeding one order's transactions to a commission model
    commission_model,   \* the CommissionModel instance
    c_order,            \* the order: amount, filled, commission, root_symbol
    c_txns,             \* the transactions of the order so far
    c_charges,          \* what calculate returned for each of them
    c_raised,           \* calculate raised KeyError: the run has halted
    \* one call of process_order
    po_self,            \* the slippage model
    po_volume_for_bar,  \* its volume_for_bar
    po_data,            \* the bar
    po_order,           \* the order
    po_result,          \* what process_order did, once it was called
    \* the bars of one asset, simulated one after the other
    slippage,           \* the SlippageModel instance
    volume_for_bar,     \* its _volume_for_bar
    orders,             \* orders_for_asset: the open orders of the asset
    current_bar,        \* the current bar (data)
    pc,                 \* where the simulate generator stands
    idx,                \* position in orders of the order of the loop
    emitted,            \* the (order, transaction) pairs yielded by this call
    nbars,              \* bars simulated so far
    exceeded_at,        \* position whose process_order raised LiquidityExceeded
    orders_at_start,    \* the orders as they were when this call began
    \* the window data of a WithWindowData instance, looked up session by session
    window_data_cache,  \* its _window_data_cache
    current_session,    \* data.current_session
    history_calls,      \* calls of data.history so far
    lookups,            \* the lookups so far: asset, session, values, fetches
    \* two simulate streams of one model instance, consumed in any interleaving
    shared_model,       \* the SlippageModel instance
    shared_volume_for_bar,  \* its _volume_for_bar
    streams             \* per stream: orders, bar, where the generator stands,
                        \* pairs yielded, and the counter as process_order read it

commVars == <<commission_model, c_order, c_txns, c_charges, c_raised>>

poVars == <<po_self, po_volume_for_bar, po_data, po_order, po_result>>

simVars == <<slippage, volume_for_bar, orders, current_bar, pc, idx, emitted, nbars,
             exceeded_at, orders_at_start>>

winVars == <<window_data_cache, current_session, history_calls, lookups>>

ilVars == <<shared_model, shared_volume_for_bar, streams>>

vars == <<commVars, poVars, simVars, winVars, ilVars>>

\* order.direction: the sign of the order's amount
Direction(order) == IF order.amount < 0 THEN -1 ELSE 1

\* order.open_amount
OpenAmount(order) == order.amount - order.filled

(***************************************************************************)
(*                         COMMISSION MODELS                               *)
(***************************************************************************)

\* commission.py:21, in cents
DEFAULT_PER_CONTRACT_COST == 85

\* Root symbols of the futures the orders are on.  "CL" and "ES" are in the
\* built-in exchange-fee table, "ZZ" is in no table.
RootSymbols == {"CL", "ES", "ZZ"}

\* commission.py:24-97 (the entries of the root symbols used here), in cents
FUTURE_EXCHANGE_FEES_BY_SYMBOL == [CL |-> 150, ES |-> 118]

\* Parameter values the commission models are constructed with (cents).
CostValues == {0, 40, 85}

MinTradeCosts == {0, 100}

FeeValues == {0, 30, 150}

CostPerDollarValues == {0, 2}

\* Transaction prices (ticks) seen by the commission models.
TxnPrices == {1, 3}

\* A float-or-dict constructor argument of PerContract: isfloat says which.
FloatArg(v) == [isfloat |-> TRUE, val |-> v, dict |-> [CL |-> 0]]

DictArg(d) == [isfloat |-> FALSE, val |-> 0, dict |-> d]

UserCostDicts == {[CL |-> 40], [CL |-> 40, ZZ |-> 85]}

UserFeeDicts == {[CL |-> 30], [CL |-> 30, ZZ |-> 150]}

CostArgs == {FloatArg(v) : v \in CostValues} \cup {DictArg(d) : d \in UserCostDicts}

FeeArgs == {FloatArg(v) : v \in FeeValues} \cup {DictArg(d) : d \in UserFeeDicts}

\* The result of a call: a returned value, or a raised KeyError.
Returned(v) == [raised |-> FALSE, value |-> v]

KeyError == [raised |-> TRUE, value |-> 0]

\* PerUnit._calculate.  min_trade_cost is self.min_trade_cost; a
\* min_trade_cost of None is 0 by `self.min_trade_cost or 0`, and is the
\* value 0 here.
PerUnit_calculate_NoMinimum(self_min_trade_cost, order, transaction, cost_per_unit, exchange_fee) ==
    LET additional_commission == Abs(transaction.amount * cost_per_unit)
    IN  IF order.commission = 0
        THEN additional_commission + exchange_fee
        ELSE LET per_unit_total == (order.filled * cost_per_unit)
                                   + additional_commission + exchange_fee
             IN  per_unit_total - order.commission

PerUnit_calculate(self_min_trade_cost, order, transaction, cost_per_unit, exchange_fee) ==
    LET additional_commission == Abs(transaction.amount * cost_per_unit)
        min_trade_cost == self_min_trade_cost
    IN  IF order.commission = 0
        THEN Max(min_trade_cost, additional_commission + exchange_fee)
        ELSE LET per_unit_total == (order.filled * cost_per_unit)
                                   + additional_commission + exchange_fee
             IN  IF per_unit_total < min_trade_cost
                 THEN 0
                 ELSE per_unit_total - order.commission

\* PerShare.calculate
PerShare_calculate(self, order, transaction) ==
    Returned(PerUnit_calculate(self.min_trade_cost, order, transaction,
                               self.cost_per_share, 0))

\* dict.get(key, default) with the default already evaluated
DictGet(d, key, default) == IF key \in DOMAIN d THEN d[key] ELSE default

\* PerContract.calculate, the cost lookup: the float, or the user's dict with
\* the fixed default cost for a root symbol it does not have.
PerContract_cost_per_contract(self, order) ==
    IF self.cost_per_contract.isfloat
    THEN Returned(self.cost_per_contract.val)
    ELSE Returned(DictGet(self.cost_per_contract.dict, order.root_symbol,
                          DEFAULT_PER_CONTRACT_COST))

\* PerContract.calculate, the exchange-fee lookup.  The default of the lookup,
\* FUTURE_EXCHANGE_FEES_BY_SYMBOL[root_symbol], is an argument of dict.get and
\* so is evaluated (and raises KeyError) before the user's dict is looked at.
PerContract_exchange_fee(self, order) ==
    IF self.exchange_fee.isfloat
    THEN Returned(self.exchange_fee.val)
    ELSE IF order.root_symbol \notin DOMAIN FUTURE_EXCHANGE_FEES_BY_SYMBOL
         THEN KeyError
         ELSE Returned(DictGet(self.exchange_fee.dict, order.root_symbol,
                               FUTURE_EXCHANGE_FEES_BY_SYMBOL[order.root_symbol]))

\* PerContract.calculate
PerContract_calculate(self, order, transaction) ==
    LET cost_per_contract == PerContract_cost_per_contract(self, order)
        exchange_fee == PerContract_exchange_fee(self, order)
    IN  IF exchange_fee.raised
        THEN KeyError
        ELSE Returned(PerUnit_calculate(self.min_trade_cost, order, transaction,
                                        cost_per_contract.value, exchange_fee.value))

\* PerEquityTrade.calculate
PerEquityTrade_calculate(self, order, transaction) ==
    IF order.commission = 0 THEN Returned(self.cost) ELSE Returned(0)

\* PerDollarBase.calculate with the first-transaction case of the Per-Trade
\* model
PerDollarBase_calculate_FirstOnly(self, order, transaction) ==
    IF order.commission = 0
    THEN Returned(Abs(transaction.amount) * transaction.price * self.cost_per_dollar)
    ELSE Returned(0)

\* PerDollarBase.calculate
PerDollarBase_calculate(self, order, transaction) ==
    LET cost_per_share == transaction.price * self.cost_per_dollar
    IN  Returned(Abs(transaction.amount) * cost_per_share)

\* The constructors: the commission model instances.
PerShare(cost, min_trade_cost) ==
    [kind |-> "PerShare", cost_per_share |-> cost, min_trade_cost |-> min_trade_cost,
     cost_per_contract |-> FloatArg(0), exchange_fee |-> FloatArg(0),
     cost |-> 0, cost_per_dollar |-> 0]

PerContract(cost_per_contract, exchange_fee, min_trade_cost) ==
    [kind |-> "PerContract", cost_per_share |-> 0, min_trade_cost |-> min_trade_cost,
     cost_per_contract |-> cost_per_contract, exchange_fee |-> exchange_fee,
     cost |-> 0, cost_per_dollar |-> 0]

PerEquityTrade(cost) ==
    [kind |-> "PerEquityTrade", cost_per_share |-> 0, min_trade_cost |-> 0,
     cost_per_contract |-> FloatArg(0), exchange_fee |-> FloatArg(0),
     cost |-> cost, cost_per_dollar |-> 0]

\* PerFutureTrade.__init__: a PerContract with cost_per_contract=0,
\* exchange_fee=cost_per_trade, min_trade_cost=0
PerFutureTrade(cost_per_trade) ==
    [PerContract(FloatArg(0), cost_per_trade, 0) EXCEPT !.kind = "PerFutureTrade"]

PerDollarBase(cost) ==
    [kind |-> "PerDollar", cost_per_share |-> 0, min_trade_cost |-> 0,
     cost_per_contract |-> FloatArg(0), exchange_fee |-> FloatArg(0),
     cost |-> 0, cost_per_dollar |-> cost]

CommissionModels ==
    {PerShare(c, m) : c \in CostValues, m \in MinTradeCosts}
    \cup {PerContract(c, f, m) : c \in CostArgs, f \in FeeArgs, m \in MinTradeCosts}
    \cup {PerEquityTrade(c) : c \in FeeValues}
    \cup {PerFutureTrade(f) : f \in FeeArgs}
    \cup {PerDollarBase(c) : c \in CostPerDollarValues}

\* CommissionModel.calculate, dispatched on the class of the instance
calculate(self, order, transaction) ==
    CASE self.kind = "PerShare" -> PerShare_calculate(self, order, transaction)
      [] self.kind \in {"PerContract", "PerFutureTrade"} ->
             PerContract_calculate(self, order, transaction)
      [] self.kind = "PerEquityTrade" -> PerEquityTrade_calculate(self, order, transaction)
      [] OTHER -> PerDollarBase_calculate(self, order, transaction)

(***************************************************************************)
(*                          SLIPPAGE MODELS                                *)
(*                                                                         *)
(* Volumes are whole units.  Prices are rationals <<numerator,             *)
(* denominator>> over whole ticks, with a positive denominator; the        *)
(* denominator 0 is NaN.  A fraction given to a constructor (volume_limit, *)
(* price_impact) is a pair <<numerator, denominator>> too.                 *)
(***************************************************************************)

\* Python's None (an order without limit or stop price), not a price
None == -1

\* A missing close price (pandas.isnull(price) holds of it), not a price
NaN == -2

isnull(price) == price = NaN

\* The truth value Python gives an optional price: None and 0 are false.
Truthy(x) == x # None /\ x # 0

RatNaN == <<0, 0>>

\* fill_price > limit and fill_price < limit; false of a NaN
RatGT(r, x) == r[2] # 0 /\ r[1] > x * r[2]

RatLT(r, x) == r[2] # 0 /\ r[1] < x * r[2]

\* int(x) of a rational x = n/d >= 0: the whole units of it
IntOf(n, d) == n \div d

\* slippage.py:449, basis points
BASIS_POINTS == 10000

\* The square root is taken in fixed point, to one part in SqrtScale.
SqrtScale == 10

\* math.sqrt of n/d, as a multiple of 1/SqrtScale (rounded down)
ISqrt(n, d) ==
    LET x == (n * SqrtScale * SqrtScale) \div d
    IN  CHOOSE r \in 0..(x + 1) : r * r <= x /\ (r + 1) * (r + 1) > x

\* slippage.py:35-108: the impact coefficient of a root symbol.  The table's
\* values are positive reals far below one tick; the model keeps a positive
\* rational for the root symbol it uses.  "ZZ" is not in the table.
ROOT_SYMBOL_TO_ETA == [CL |-> <<1, 4>>]

\* fill_price_worse_than_limit_price without the test of the direction's side
fill_price_worse_than_limit_price_Never(fill_price, order) == FALSE

\* fill_price_worse_than_limit_price(fill_price, order)
fill_price_worse_than_limit_price(fill_price, order) ==
    IF Truthy(order.limit)
    THEN \/ (Direction(order) > 0 /\ RatGT(fill_price, order.limit))
         \/ (Direction(order) < 0 /\ RatLT(fill_price, order.limit))
    ELSE FALSE

\* What process_order does: it returns (execution_price, execution_volume),
\* returns (None, None), returns a bare None, or raises.
Fill(price, volume) == [kind |-> "fill", price |-> price, volume |-> volume]

NoFill == [kind |-> "nofill", price |-> RatNaN, volume |-> <<0, 1>>]

BareNone == [kind |-> "none", price |-> RatNaN, volume |-> <<0, 1>>]

LiquidityExceeded == [kind |-> "LiquidityExceeded", price |-> RatNaN, volume |-> <<0, 1>>]

RootSymbolKeyError == [kind |-> "KeyError", price |-> RatNaN, volume |-> <<0, 1>>]

\* VolumeSlippage.process_order: the numerator of remaining_volume =
\* max_volume - self.volume_for_bar, with max_volume = volume_limit * volume,
\* over the denominator of volume_limit
remaining_volume_IgnoresFilled(self, self_volume_for_bar, volume) ==
    self.volume_limit[1] * volume

remaining_volume(self, self_volume_for_bar, volume) ==
    self.volume_limit[1] * volume - self.volume_limit[2] * self_volume_for_bar

\* VolumeSlippage.process_order: cur_volume =
\* int(min(remaining_volume, abs(order.open_amount))), for remaining_volume =
\* remaining_n / remaining_d >= 1
cur_volume_AllRemaining(remaining_n, remaining_d, order) ==
    IntOf(remaining_n, remaining_d)

cur_volume(remaining_n, remaining_d, order) ==
    Min(IntOf(remaining_n, remaining_d), Abs(OpenAmount(order)))

\* VolumeSlippage.process_order with the volume share of the order's own
\* fill, total_volume = cur_volume, not of all fills of the bar
VolumeSlippage_process_order_OwnShare(self, self_volume_for_bar, data, order) ==
    LET volume == data.volume
        remaining_n == self.volume_limit[1] * volume
                           - self.volume_limit[2] * self_volume_for_bar
        remaining_d == self.volume_limit[2]
    IN  IF remaining_n < remaining_d
        THEN [kind |-> "LiquidityExceeded", price |-> <<0, 0>>, volume |-> <<0, 1>>]
        ELSE LET cur == Min(remaining_n \div remaining_d, Abs(order.amount - order.filled))
                 share_d == volume * self.volume_limit[2]
                 share_n == Min(cur * self.volume_limit[2], self.volume_limit[1] * volume)
                 price == data.close
                 den == self.price_impact[2] * share_d * share_d
                 impact_n == self.price_impact[1] * share_n * share_n
                 direction == IF order.amount < 0 THEN -1 ELSE 1
                 impacted_price == <<price * (den + direction * impact_n), den>>
             IN  IF cur < 1
                 THEN [kind |-> "nofill", price |-> <<0, 0>>, volume |-> <<0, 1>>]
                 ELSE IF price = NaN
                 THEN [kind |-> "none", price |-> <<0, 0>>, volume |-> <<0, 1>>]
                 ELSE IF /\ order.limit # None /\ order.limit # 0
                         /\ \/ (direction > 0
                                    /\ impacted_price[1] > order.limit * impacted_price[2])
                            \/ (direction < 0
                                    /\ impacted_price[1] < order.limit * impacted_price[2])
                 THEN [kind |-> "nofill", price |-> <<0, 0>>, volume |-> <<0, 1>>]
                 ELSE [kind |-> "fill", price |-> impacted_price,
                       volume |-> <<direction * cur, 1>>]

\* VolumeSlippage.process_order.  self_volume_for_bar is self.volume_for_bar.
VolumeSlippage_process_order(self, self_volume_for_bar, data, order) ==
    LET volume == data.volume
        remaining_n == remaining_volume(self, self_volume_for_bar, volume)
        remaining_d == self.volume_limit[2]
    IN  IF remaining_n < remaining_d
        THEN LiquidityExceeded
        ELSE LET cur == cur_volume(remaining_n, remaining_d, order)
                 total_volume == self_volume_for_bar + cur
                 \* volume_share = min(total_volume / volume, volume_limit), over
                 \* the denominator share_d
                 share_d == volume * self.volume_limit[2]
                 share_n == Min(total_volume * self.volume_limit[2],
                                self.volume_limit[1] * volume)
                 price == data.close
                 \* impacted_price = price + volume_share^2 * (+-price_impact) * price
                 den == self.price_impact[2] * share_d * share_d
                 impact_n == self.price_impact[1] * share_n * share_n
                 impacted_price ==
                     <<price * (den + CopySign(impact_n, Direction(order))), den>>
             IN  IF cur < 1
                 THEN NoFill
                 ELSE IF isnull(price)
                 THEN BareNone
                 ELSE IF fill_price_worse_than_limit_price(impacted_price, order)
                 THEN NoFill
                 ELSE Fill(impacted_price, <<CopySign(cur, Direction(order)), 1>>)

\* FixedSlippageBase.process_order: close + spread / 2.0 * direction, and
\* order.amount
FixedSlippageBase_process_order(self, self_volume_for_bar, data, order) ==
    LET price == data.close
    IN  Fill(IF isnull(price)
             THEN RatNaN
             ELSE <<2 * price + self.spread * Direction(order), 2>>,
             <<order.amount, 1>>)

\* FuturesMarketImpact.process_order.  mean_volume and volatility are what
\* _get_window_data returns for the asset and the session.
FuturesMarketImpact_process_order(self, self_volume_for_bar, data, order) ==
    IF OpenAmount(order) = 0
    THEN NoFill
    ELSE IF data.volume = 0
    THEN NoFill
    ELSE IF order.root_symbol \notin DOMAIN ROOT_SYMBOL_TO_ETA
    THEN RootSymbolKeyError
    ELSE LET eta == ROOT_SYMBOL_TO_ETA[order.root_symbol]
             mean_volume == data.mean_volume
             volatility == data.volatility
             \* txn_volume = min(volume * volume_limit, |open_amount|), over
             \* the denominator of volume_limit
             txn_n == Min(data.volume * self.volume_limit[1],
                          Abs(OpenAmount(order)) * self.volume_limit[2])
             txn_d == self.volume_limit[2]
             \* sqrt(psi), psi = txn_volume / mean_volume, over SqrtScale
             sqrt_psi == ISqrt(txn_n, txn_d * mean_volume)
             \* market_impact = eta * volatility * sqrt(psi)
             impact_n == eta[1] * volatility[1] * sqrt_psi
             impact_d == eta[2] * volatility[2] * SqrtScale
             \* price = mean(high, low); simulated_impact = price *
             \* market_impact / 10000
             den == impact_d * BASIS_POINTS
             impacted_price ==
                 <<(data.high + data.low) * (den + CopySign(impact_n, Direction(order))),
                   2 * den>>
         IN  IF fill_price_worse_than_limit_price(impacted_price, order)
             THEN NoFill
             ELSE Fill(impacted_price, <<CopySign(txn_n, Direction(order)), txn_d>>)

NotCalled == [kind |-> "not called", price |-> RatNaN, volume |-> <<0, 1>>]

\* The constructors: the slippage model instances.
VolumeSlippage(volume_limit, price_impact) ==
    [kind |-> "VolumeSlippage", volume_limit |-> volume_limit,
     price_impact |-> price_impact, spread |-> 0]

FixedSlippageBase(spread) ==
    [kind |-> "FixedSlippage", volume_limit |-> <<0, 1>>,
     price_impact |-> <<0, 1>>, spread |-> spread]

FuturesMarketImpact(volume_limit) ==
    [kind |-> "FuturesMarketImpact", volume_limit |-> volume_limit,
     price_impact |-> <<0, 1>>, spread |-> 0]

\* SlippageModel.process_order, dispatched on the class of the instance
process_order(self, self_volume_for_bar, data, order) ==
    CASE self.kind = "VolumeSlippage" ->
             VolumeSlippage_process_order(self, self_volume_for_bar, data, order)
      [] self.kind = "FixedSlippage" ->
             FixedSlippageBase_process_order(self, self_volume_for_bar, data, order)
      [] OTHER -> FuturesMarketImpact_process_order(self, self_volume_for_bar, data, order)

\* Parameter values the slippage models are constructed with.
VolumeLimits == {<<1, 2>>, <<1, 4>>}

PriceImpacts == {<<1, 10>>}

Spreads == {2}

SlippageModels ==
    {VolumeSlippage(l, i) : l \in VolumeLimits, i \in PriceImpacts}
    \cup {FixedSlippageBase(s) : s \in Spreads}
    \cup {FuturesMarketImpact(l) : l \in {<<1, 2>>}}

\* One bar of the asset: data.current(asset, field), and the window data of
\* the session.
Bar(volume, close) ==
    [volume |-> volume, close |-> close,
     high |-> IF close = NaN THEN 3 ELSE close + 1,
     low |-> IF close = NaN THEN 1 ELSE Max(close - 1, 0),
     mean_volume |-> 4, volatility |-> <<1, 5>>]

\* An order as the order management hands it to the engine.
Order(amount, filled, limit, stop, root_symbol) ==
    [amount |-> amount, filled |-> filled, limit |-> limit, stop |-> stop,
     limit_reached |-> FALSE, stop_reached |-> FALSE, root_symbol |-> root_symbol]

(***************************************************************************)
(* The execution simulator: SlippageModel.simulate over the bars of one    *)
(* asset, drained by the ledger before the next bar begins.                *)
(***************************************************************************)
\* bars simulated in one run
MaxBars == 2

\* largest number of open orders of the asset
MaxOrders == 2

\* Order.triggered
triggered(order) ==
    /\ ~(order.stop # None /\ ~order.stop_reached)
    /\ ~(order.limit # None /\ ~order.limit_reached)

\* Order.check_triggers(price, dt): the stop and limit prices are tested
\* against the bar's price; a stop-limit order whose stop is reached becomes
\* a limit order.  A triggered order stays as it is.
check_triggers(order, price) ==
    IF triggered(order)
    THEN order
    ELSE LET buy == order.amount > 0
             stop_hit == IF buy THEN price >= order.stop ELSE price <= order.stop
             limit_hit == IF buy THEN price <= order.limit ELSE price >= order.limit
         IN  CASE order.stop # None /\ order.limit # None ->
                      [order EXCEPT !.stop_reached = FALSE,
                                    !.limit_reached = stop_hit /\ limit_hit,
                                    !.stop = IF stop_hit THEN None ELSE @]
               [] order.stop # None /\ order.limit = None ->
                      [order EXCEPT !.stop_reached = stop_hit, !.limit_reached = FALSE]
               [] order.stop = None /\ order.limit # None ->
                      [order EXCEPT !.stop_reached = FALSE, !.limit_reached = limit_hit]
               [] OTHER -> order

\* create_transaction(order, dt, price, amount): the amount is cut to whole
\* units; an amount of less than one unit raises.
create_transaction(order, price, amount) ==
    LET magnitude == IntOf(Abs(amount[1]), amount[2])
    IN  [raised |-> magnitude < 1,
         amount |-> IF amount[1] < 0 THEN -magnitude ELSE magnitude,
         price |-> price]

\* simulate returns before its loop: no volume in the bar, or no close price
BarIsSkipped_VolumeOnly(bar) == bar.volume = 0

BarIsSkipped(bar) == bar.volume = 0 \/ isnull(bar.close)

SimBars ==
    {Bar(0, 2), Bar(2, 2), Bar(4, 2), Bar(4, NaN), Bar(4, 1), Bar(4, 3)}

\* The orders placed on the asset: market, limit and stop orders.
OrderTemplates(r) ==
    {Order(2, 0, None, None, r), Order(-2, 0, None, None, r),
     Order(1, 0, None, None, r), Order(-1, 0, 2, None, r),
     Order(2, 0, 2, None, r), Order(1, 0, None, 2, r)}

OrderLists(r) ==
    UNION {[1..n -> OrderTemplates(r)] : n \in 1..MaxOrders}

\* simulate without `self._volume_for_bar = 0`
simulate_begin_NoReset(bar) ==
    /\ pc \in {"idle", "ended"}
    /\ nbars < MaxBars
    /\ ~BarIsSkipped(bar)
    /\ current_bar' = bar
    /\ pc' = "running"
    /\ idx' = 1
    /\ emitted' = <<>>
    /\ nbars' = nbars + 1
    /\ exceeded_at' = 0
    /\ orders_at_start' = orders
    /\ UNCHANGED <<slippage, orders, volume_for_bar>>

\* simulate with a loop that goes to the last order at once
simulate_begin_FromLast(bar) ==
    /\ pc \in {"idle", "ended"}
    /\ nbars < MaxBars
    /\ ~BarIsSkipped(bar)
    /\ volume_for_bar' = 0
    /\ current_bar' = bar
    /\ pc' = "running"
    /\ idx' = Len(orders)
    /\ emitted' = <<>>
    /\ nbars' = nbars + 1
    /\ exceeded_at' = 0
    /\ orders_at_start' = orders
    /\ UNCHANGED <<slippage, orders>>

simulate_begin(bar) ==
    /\ pc \in {"idle", "ended"}
    /\ nbars < MaxBars
    /\ ~BarIsSkipped(bar)
    /\ volume_for_bar' = 0
    /\ current_bar' = bar
    /\ pc' = "running"
    /\ idx' = 1
    /\ emitted' = <<>>
    /\ nbars' = nbars + 1
    /\ exceeded_at' = 0
    /\ orders_at_start' = orders
    /\ UNCHANGED <<slippage, orders>>

\* volume == 0, or isnull(price): return
simulate_skip_bar(bar) ==
    /\ pc \in {"idle", "ended"}
    /\ nbars < MaxBars
    /\ BarIsSkipped(bar)
    /\ volume_for_bar' = 0
    /\ current_bar' = bar
    /\ pc' = "ended"
    /\ idx' = 1
    /\ emitted' = <<>>
    /\ nbars' = nbars + 1
    /\ exceeded_at' = 0
    /\ orders_at_start' = orders
    /\ UNCHANGED <<slippage, orders>>

\* The loop is at an order.
AtOrder == pc = "running" /\ idx <= Len(orders)

\* The order of the loop after order.check_triggers(price, dt)
Checked == check_triggers(orders[idx], current_bar.close)

\* What process_order does for it
Processed == process_order(slippage, volume_for_bar, current_bar, Checked)

\* open_amount == 0: continue
simulate_no_open_amount ==
    /\ AtOrder
    /\ OpenAmount(orders[idx]) = 0
    /\ idx' = idx + 1
    /\ UNCHANGED <<slippage, volume_for_bar, orders, current_bar, pc, emitted, nbars,
                   exceeded_at, orders_at_start>>

\* not order.triggered, with `break` in the place of `continue`
simulate_not_triggered_Breaks ==
    /\ AtOrder
    /\ OpenAmount(orders[idx]) # 0
    /\ ~triggered(Checked)
    /\ orders' = [orders EXCEPT ![idx] = Checked]
    /\ pc' = "ended"
    /\ UNCHANGED <<slippage, volume_for_bar, current_bar, idx, emitted, nbars,
                   exceeded_at, orders_at_start>>

\* not order.triggered: continue
simulate_not_triggered ==
    /\ AtOrder
    /\ OpenAmount(orders[idx]) # 0
    /\ ~triggered(Checked)
    /\ orders' = [orders EXCEPT ![idx] = Checked]
    /\ idx' = idx + 1
    /\ UNCHANGED <<slippage, volume_for_bar, current_bar, pc, emitted, nbars,
                   exceeded_at, orders_at_start>>

\* except LiquidityExceeded, with `continue` in the place of `break`
simulate_liquidity_exceeded_Continues ==
    /\ pc = "running" /\ idx <= Len(orders)
    /\ OpenAmount(orders[idx]) # 0
    /\ triggered(check_triggers(orders[idx], current_bar.close))
    /\ process_order(slippage, volume_for_bar, current_bar,
                     check_triggers(orders[idx], current_bar.close)).kind
           = "LiquidityExceeded"
    /\ orders' = [orders EXCEPT ![idx] = check_triggers(orders[idx], current_bar.close)]
    /\ idx' = idx + 1
    /\ exceeded_at' = idx
    /\ UNCHANGED <<slippage, volume_for_bar, current_bar, pc, emitted, nbars,
                   orders_at_start>>

\* except LiquidityExceeded: break
simulate_liquidity_exceeded ==
    /\ AtOrder
    /\ OpenAmount(orders[idx]) # 0
    /\ triggered(Checked)
    /\ Processed.kind = "LiquidityExceeded"
    /\ orders' = [orders EXCEPT ![idx] = Checked]
    /\ pc' = "ended"
    /\ exceeded_at' = idx
    /\ UNCHANGED <<slippage, volume_for_bar, current_bar, idx, emitted, nbars, orders_at_start>>

\* process_order returned (None, None), taken for the end of the bar's
\* liquidity
simulate_no_fill_Breaks ==
    /\ AtOrder
    /\ OpenAmount(orders[idx]) # 0
    /\ triggered(Checked)
    /\ Processed.kind = "nofill"
    /\ orders' = [orders EXCEPT ![idx] = Checked]
    /\ pc' = "ended"
    /\ UNCHANGED <<slippage, volume_for_bar, current_bar, idx, emitted, nbars,
                   exceeded_at, orders_at_start>>

\* process_order returned (None, None): txn stays None, next order
simulate_no_fill ==
    /\ AtOrder
    /\ OpenAmount(orders[idx]) # 0
    /\ triggered(Checked)
    /\ Processed.kind = "nofill"
    /\ orders' = [orders EXCEPT ![idx] = Checked]
    /\ idx' = idx + 1
    /\ UNCHANGED <<slippage, volume_for_bar, current_bar, pc, emitted, nbars,
                   exceeded_at, orders_at_start>>

\* the yield without `self._volume_for_bar += abs(txn.amount)`
simulate_yield_NoCount ==
    /\ AtOrder
    /\ OpenAmount(orders[idx]) # 0
    /\ triggered(Checked)
    /\ Processed.kind = "fill"
    /\ LET txn == create_transaction(Checked, Processed.price, Processed.volume)
       IN  /\ ~txn.raised
           /\ emitted' = Append(emitted, [pos |-> idx, amount |-> txn.amount,
                                          price |-> txn.price])
    /\ orders' = [orders EXCEPT ![idx] = Checked]
    /\ pc' = "yielded"
    /\ UNCHANGED <<slippage, volume_for_bar, current_bar, idx, nbars, exceeded_at,
                   orders_at_start>>

\* process_order returned a fill: the transaction is created, its amount is
\* added to _volume_for_bar and the pair is yielded
simulate_yield ==
    /\ AtOrder
    /\ OpenAmount(orders[idx]) # 0
    /\ triggered(Checked)
    /\ Processed.kind = "fill"
    /\ LET txn == create_transaction(Checked, Processed.price, Processed.volume)
       IN  /\ ~txn.raised
           /\ volume_for_bar' = volume_for_bar + Abs(txn.amount)
           /\ emitted' = Append(emitted, [pos |-> idx, amount |-> txn.amount,
                                          price |-> txn.price])
    /\ orders' = [orders EXCEPT ![idx] = Checked]
    /\ pc' = "yielded"
    /\ UNCHANGED <<slippage, current_bar, idx, nbars, exceeded_at, orders_at_start>>

\* process_order or create_transaction raises something that simulate does
\* not catch (a KeyError of the eta table, a transaction of less than one
\* unit, the unpacking of a bare None): the error ends the run.
simulate_raises ==
    /\ AtOrder
    /\ OpenAmount(orders[idx]) # 0
    /\ triggered(Checked)
    /\ \/ Processed.kind \in {"KeyError", "none"}
       \/ /\ Processed.kind = "fill"
          /\ create_transaction(Checked, Processed.price, Processed.volume).raised
    /\ orders' = [orders EXCEPT ![idx] = Checked]
    /\ pc' = "raised"
    /\ UNCHANGED <<slippage, volume_for_bar, current_bar, idx, emitted, nbars,
                   exceeded_at, orders_at_start>>

\* at the end of the list the loop starts over: a stream that can be restarted
simulate_end_Restarts ==
    /\ pc = "running"
    /\ idx > Len(orders)
    /\ \E i \in 1..Len(orders) : OpenAmount(orders[i]) # 0
    /\ idx' = 1
    /\ UNCHANGED <<slippage, volume_for_bar, orders, current_bar, pc, emitted, nbars,
                   exceeded_at, orders_at_start>>

\* the for loop is through the orders
simulate_end ==
    /\ pc = "running"
    /\ idx > Len(orders)
    /\ pc' = "ended"
    /\ UNCHANGED <<slippage, volume_for_bar, orders, current_bar, idx, emitted, nbars,
                   exceeded_at, orders_at_start>>

\* The consumer of the stream takes the pair, adds the transaction's amount
\* to order.filled, and asks for the next pair.
ledger_apply ==
    /\ pc = "yielded"
    /\ orders' = [orders EXCEPT ![idx].filled = @ + emitted[Len(emitted)].amount]
    /\ idx' = idx + 1
    /\ pc' = "running"
    /\ UNCHANGED <<slippage, volume_for_bar, current_bar, emitted, nbars, exceeded_at,
                   orders_at_start>>

(***************************************************************************)
(* The window data of WithWindowData: the trailing mean volume and the     *)
(* annualized volatility of an asset, kept in an ExpiringCache.            *)
(***************************************************************************)
\* the assets whose window data is looked up
Assets == {"CLF16", "ESH16"}

\* window_length: the number of complete days of the window
\* (FuturesMarketImpact asks for 20)
WindowLength == 3

\* The daily bars of the data portal: the volume and the close price of an
\* asset on a day.  The windows of consecutive sessions differ in both means.
DailyVolume(asset, day) ==
    IF asset = "CLF16" THEN 4 + 2 * ((day + 12) % 4) ELSE 3 + ((day + 12) % 4)

DailyClose(asset, day) ==
    IF asset = "CLF16" THEN 3 + ((day + 12) % 3) \div 2 ELSE 2 + ((day + 12) % 3) \div 2

\* data.history(asset, field, bar_count, '1d') at the session: the last
\* bar_count daily values, the session's own last
history(session, asset, field, bar_count) ==
    [i \in 1..bar_count |->
        IF field = "volume"
        THEN DailyVolume(asset, session - bar_count + i)
        ELSE DailyClose(asset, session - bar_count + i)]

\* series[:-1]
AllButLast(series) == SubSeq(series, 1, Len(series) - 1)

\* series.mean(), as a fraction
Mean(series) == <<SeqSum(series), Len(series)>>

RECURSIVE SeqProduct(_)
SeqProduct(series) ==
    IF series = <<>> THEN 1 ELSE Head(series) * SeqProduct(Tail(series))

\* series.pct_change().std() * SQRT_252: the sample standard deviation
\* (ddof = 1) of the changes series[i+1] / series[i] - 1, times sqrt(252), in
\* fixed point; NaN when there are fewer than two changes.  The changes are
\* taken over their common denominator D, the product of the series' values
\* but the last.
AnnualizedVolatility(series) ==
    LET m == Len(series) - 1
        D == SeqProduct(AllButLast(series))
        R == [i \in 1..m |-> (series[i + 1] - series[i]) * (D \div series[i])]
        sum == SeqSum(R)
        squares == SeqSum([i \in 1..m |-> R[i] * R[i]])
    IN  IF m < 2
        THEN RatNaN
        ELSE <<ISqrt(252 * (m * squares - sum * sum), m * (m - 1) * D * D), SqrtScale>>

\* ExpiringCache: one entry for a key, with the session it was set at
NoEntry == [present |-> FALSE, value |-> <<RatNaN, RatNaN>>, expires |-> 0]

ExpiringCache == [asset \in Assets |-> NoEntry]

\* ExpiringCache.get(key, dt): the entry of the key if it is of the session dt,
\* KeyError otherwise
ExpiringCache_get(cache, key, dt) ==
    IF cache[key].present /\ cache[key].expires = dt
    THEN [raised |-> FALSE, value |-> cache[key].value]
    ELSE [raised |-> TRUE, value |-> <<RatNaN, RatNaN>>]

\* ExpiringCache.set(key, value, dt): the entry takes the place of the key's
\* earlier one
ExpiringCache_set(cache, key, value, dt) ==
    [cache EXCEPT ![key] = [present |-> TRUE, value |-> value, expires |-> dt]]

\* _get_window_data that does not put the computed values in the cache
get_window_data_NoSet(self_window_data_cache, session, asset, window_length) ==
    LET got == ExpiringCache_get(self_window_data_cache, asset, session)
    IN  IF ~got.raised
        THEN [values |-> got.value, cache |-> self_window_data_cache, fetches |-> 0]
        ELSE LET volume_history == history(session, asset, "volume", window_length + 1)
                 close_history == history(session, asset, "close", window_length + 1)
             IN  [values |-> <<Mean(AllButLast(volume_history)),
                               AnnualizedVolatility(AllButLast(close_history))>>,
                  cache |-> self_window_data_cache,
                  fetches |-> 1]

\* WithWindowData._get_window_data(data, asset, window_length), data being at
\* the session: the pair (mean volume, volatility), the cache after the call,
\* and the number of times the daily windows were fetched from data.history
get_window_data(self_window_data_cache, session, asset, window_length) ==
    LET got == ExpiringCache_get(self_window_data_cache, asset, session)
    IN  IF ~got.raised
        THEN [values |-> got.value, cache |-> self_window_data_cache, fetches |-> 0]
        ELSE LET volume_history == history(session, asset, "volume", window_length + 1)
                 close_history == history(session, asset, "close", window_length + 1)
                 values == <<Mean(AllButLast(volume_history)),
                             AnnualizedVolatility(AllButLast(close_history))>>
             IN  [values |-> values,
                  cache |-> ExpiringCache_set(self_window_data_cache, asset, values,
                                              session),
                  fetches |-> 1]

(***************************************************************************)
(* simulate as the generator it is: the body runs from one yield to the    *)
(* next (or to its end) each time the consumer asks for a pair, and        *)
(* nothing else runs in between.                                           *)
(***************************************************************************)
\* The for loop of simulate from position i on, until it yields, ends or
\* raises.  own is the sum of the units this call has yielded so far; reads
\* collects, for every call of process_order, the counter the call found and
\* own at that moment.
RECURSIVE simulate_loop(_, _, _, _, _, _, _)
simulate_loop(self, self_volume_for_bar, bar, orders_for_asset, i, own, reads) ==
    IF i > Len(orders_for_asset)
    THEN [pc |-> "ended", orders |-> orders_for_asset, idx |-> i,
          volume_for_bar |-> self_volume_for_bar, txn |-> <<>>, reads |-> reads]
    ELSE IF OpenAmount(orders_for_asset[i]) = 0
    THEN simulate_loop(self, self_volume_for_bar, bar, orders_for_asset, i + 1, own, reads)
    ELSE LET order == check_triggers(orders_for_asset[i], bar.close)
             checked == [orders_for_asset EXCEPT ![i] = order]
             result == process_order(self, self_volume_for_bar, bar, order)
             read == Append(reads, [counter |-> self_volume_for_bar, own |-> own])
             txn == create_transaction(order, result.price, result.volume)
         IN  IF ~triggered(order)
             THEN simulate_loop(self, self_volume_for_bar, bar, checked, i + 1, own, reads)
             ELSE CASE result.kind = "LiquidityExceeded" ->
                           [pc |-> "ended", orders |-> checked, idx |-> i,
                            volume_for_bar |-> self_volume_for_bar, txn |-> <<>>,
                            reads |-> read]
                    [] result.kind = "nofill" ->
                           simulate_loop(self, self_volume_for_bar, bar, checked, i + 1,
                                         own, read)
                    [] result.kind = "fill" /\ ~txn.raised ->
                           [pc |-> "yielded", orders |-> checked, idx |-> i,
                            volume_for_bar |-> self_volume_for_bar + Abs(txn.amount),
                            txn |-> <<[pos |-> i, amount |-> txn.amount,
                                       price |-> txn.price]>>,
                            reads |-> read]
                    [] OTHER ->
                           [pc |-> "raised", orders |-> checked, idx |-> i,
                            volume_for_bar |-> self_volume_for_bar, txn |-> <<>>,
                            reads |-> read]

\* Units of the transactions a stream has yielded.
StreamVolume(stream) ==
    SeqSum([k \in 1..Len(stream.emitted) |-> Abs(stream.emitted[k].amount)])

\* The stream after its generator has run on from position i.
StreamAfter(stream, ran) ==
    [stream EXCEPT !.orders = ran.orders, !.idx = ran.idx, !.pc = ran.pc,
                   !.emitted = @ \o ran.txn, !.reads = ran.reads]

\* The variables of a specification that is not the one running.
CommissionOff ==
    /\ commission_model = PerShare(0, 0)
    /\ c_order = [amount |-> 1, filled |-> 0, commission |-> 0, root_symbol |-> "CL"]
    /\ c_txns = <<>>
    /\ c_charges = <<>>
    /\ c_raised = FALSE

ProcessOrderOff ==
    /\ po_self = FixedSlippageBase(0)
    /\ po_volume_for_bar = 0
    /\ po_data = Bar(0, NaN)
    /\ po_order = Order(1, 0, None, None, "CL")
    /\ po_result = NotCalled

SimulateOff ==
    /\ slippage = FixedSlippageBase(0)
    /\ volume_for_bar = 0
    /\ orders = <<>>
    /\ current_bar = Bar(0, NaN)
    /\ pc = "idle"
    /\ idx = 1
    /\ emitted = <<>>
    /\ nbars = 0
    /\ exceeded_at = 0
    /\ orders_at_start = <<>>

WindowDataOff ==
    /\ window_data_cache = ExpiringCache
    /\ current_session = 1
    /\ history_calls = 0
    /\ lookups = <<>>

InterleavedOff ==
    /\ shared_model = FixedSlippageBase(0)
    /\ shared_volume_for_bar = 0
    /\ streams = <<>>

Init ==
    /\ slippage \in SlippageModels
    /\ \E r \in {"CL", "ZZ"} :
           /\ (r = "ZZ" => slippage.kind = "FuturesMarketImpact")
           /\ orders \in OrderLists(r)
    /\ volume_for_bar = 0
    /\ current_bar = Bar(0, NaN)
    /\ pc = "idle"
    /\ idx = 1
    /\ emitted = <<>>
    /\ nbars = 0
    /\ exceeded_at = 0
    /\ orders_at_start = orders
    /\ CommissionOff
    /\ ProcessOrderOff
    /\ WindowDataOff
    /\ InterleavedOff

Next ==
    \/ \E bar \in SimBars : simulate_begin(bar) /\ UNCHANGED <<commVars, poVars, winVars, ilVars>>
    \/ \E bar \in SimBars : simulate_skip_bar(bar) /\ UNCHANGED <<commVars, poVars, winVars, ilVars>>
    \/ simulate_no_open_amount /\ UNCHANGED <<commVars, poVars, winVars, ilVars>>
    \/ simulate_not_triggered /\ UNCHANGED <<commVars, poVars, winVars, ilVars>>
    \/ simulate_liquidity_exceeded /\ UNCHANGED <<commVars, poVars, winVars, ilVars>>
    \/ simulate_no_fill /\ UNCHANGED <<commVars, poVars, winVars, ilVars>>
    \/ simulate_yield /\ UNCHANGED <<commVars, poVars, winVars, ilVars>>
    \/ simulate_raises /\ UNCHANGED <<commVars, poVars, winVars, ilVars>>
    \/ simulate_end /\ UNCHANGED <<commVars, poVars, winVars, ilVars>>
    \/ ledger_apply /\ UNCHANGED <<commVars, poVars, winVars, ilVars>>

Spec == Init /\ [][Next]_vars

(***************************************************************************)
(* The commission specification: one commission model, one order, and the  *)
(* ledger that feeds the order's transactions to calculate.                *)
(***************************************************************************)
Amounts == {a \in -MaxAmount..MaxAmount : a # 0}

InitCommission ==
    /\ commission_model \in CommissionModels
    /\ \E a \in Amounts, r \in RootSymbols :
           c_order = [amount |-> a, filled |-> 0, commission |-> 0, root_symbol |-> r]
    /\ c_txns = <<>>
    /\ c_charges = <<>>
    /\ c_raised = FALSE
    /\ ProcessOrderOff
    /\ SimulateOff
    /\ WindowDataOff
    /\ InterleavedOff

\* The ledger processes one transaction of n units of the order: it asks the
\* commission model for the charge with the order as it is before the
\* transaction, then adds the amount to order.filled and the charge to
\* order.commission.
ProcessTransaction(n, price) ==
    /\ ~c_raised
    /\ n \in 1..Abs(OpenAmount(c_order))
    /\ LET transaction == [amount |-> CopySign(n, Direction(c_order)), price |-> price]
           res == calculate(commission_model, c_order, transaction)
       IN  /\ ~res.raised
           /\ c_txns' = Append(c_txns, transaction)
           /\ c_charges' = Append(c_charges, res.value)
           /\ c_order' = [c_order EXCEPT !.filled = @ + transaction.amount,
                                         !.commission = @ + res.value]
           /\ UNCHANGED <<commission_model, c_raised, poVars, simVars, winVars, ilVars>>

\* The same, when calculate raises: the error is not handled, the run halts.
ProcessTransactionRaises(n, price) ==
    /\ ~c_raised
    /\ n \in 1..Abs(OpenAmount(c_order))
    /\ LET transaction == [amount |-> CopySign(n, Direction(c_order)), price |-> price]
       IN  calculate(commission_model, c_order, transaction).raised
    /\ c_raised' = TRUE
    /\ UNCHANGED <<commission_model, c_order, c_txns, c_charges, poVars, simVars,
                   winVars, ilVars>>

NextCommission ==
    \/ \E n \in 1..MaxAmount, p \in TxnPrices : ProcessTransaction(n, p)
    \/ \E n \in 1..MaxAmount, p \in TxnPrices : ProcessTransactionRaises(n, p)

SpecCommission == InitCommission /\ [][NextCommission]_vars

(***************************************************************************)
(* The specification of process_order as a function: any model, any bar,   *)
(* any order state (also a partly filled one), any volume already filled   *)
(* in the bar.                                                             *)
(***************************************************************************)
\* largest |order.amount| of the orders given to process_order
MaxOrderAmount == 2

\* largest volume already filled in the bar when process_order is called
MaxVolumeForBar == 2

\* The bars process_order is called for: simulate calls it only when the bar
\* has volume and a close price.
ProcessOrderBars ==
    {Bar(v, c) : v \in {1, 2, 4, 8}, c \in {1, 2, 3}}

ProcessOrderOrders ==
    {Order(a, f, l, None, r) :
        a \in {x \in -MaxOrderAmount..MaxOrderAmount : x # 0},
        f \in -MaxOrderAmount..MaxOrderAmount,
        l \in {None, 0, 2, 3},
        r \in {"CL", "ZZ"}}

InitProcessOrder ==
    /\ po_self \in SlippageModels
    /\ po_volume_for_bar \in 0..MaxVolumeForBar
    /\ po_data \in ProcessOrderBars
    \* new and partly filled orders: simulate passes no order without open
    \* amount on
    /\ po_order \in {o \in ProcessOrderOrders :
                        \/ o.filled = 0
                        \/ (o.filled * o.amount > 0 /\ Abs(o.filled) < Abs(o.amount))}
    /\ po_result = NotCalled
    /\ CommissionOff
    /\ SimulateOff
    /\ WindowDataOff
    /\ InterleavedOff

CallProcessOrder ==
    /\ po_result = NotCalled
    /\ po_result' = process_order(po_self, po_volume_for_bar, po_data, po_order)
    /\ UNCHANGED <<po_self, po_volume_for_bar, po_data, po_order, commVars, simVars,
                   winVars, ilVars>>

NextProcessOrder == CallProcessOrder

SpecProcessOrder == InitProcessOrder /\ [][NextProcessOrder]_vars

(***************************************************************************)
(* The completion specification: a Volume-Share model, a market order at   *)
(* the head of the orders list, and a backtest that goes on simulating     *)
(* bars, every one with a close price and room for at least one unit, and  *)
(* drains every stream.                                                    *)
(***************************************************************************)
InitCompletion ==
    /\ slippage \in {m \in SlippageModels : m.kind = "VolumeSlippage"}
    /\ orders \in {o \in OrderLists("CL") : o[1].limit = None /\ o[1].stop = None}
    /\ volume_for_bar = 0
    /\ current_bar = Bar(0, NaN)
    /\ pc = "idle"
    /\ idx = 1
    /\ emitted = <<>>
    /\ nbars = 0
    /\ exceeded_at = 0
    /\ orders_at_start = orders
    /\ CommissionOff
    /\ ProcessOrderOff
    /\ WindowDataOff
    /\ InterleavedOff

\* simulate for a bar with volume_limit * volume >= 1
simulate_begin_with_room(bar) ==
    /\ slippage.volume_limit[1] * bar.volume >= slippage.volume_limit[2]
    /\ simulate_begin(bar)

NextCompletion ==
    \/ \E bar \in SimBars : simulate_begin_with_room(bar)
                                /\ UNCHANGED <<commVars, poVars, winVars, ilVars>>
    \/ simulate_no_open_amount /\ UNCHANGED <<commVars, poVars, winVars, ilVars>>
    \/ simulate_not_triggered /\ UNCHANGED <<commVars, poVars, winVars, ilVars>>
    \/ simulate_liquidity_exceeded /\ UNCHANGED <<commVars, poVars, winVars, ilVars>>
    \/ simulate_no_fill /\ UNCHANGED <<commVars, poVars, winVars, ilVars>>
    \/ simulate_yield /\ UNCHANGED <<commVars, poVars, winVars, ilVars>>
    \/ simulate_end /\ UNCHANGED <<commVars, poVars, winVars, ilVars>>
    \/ ledger_apply /\ UNCHANGED <<commVars, poVars, winVars, ilVars>>

\* The backtest loop simulates bar after bar and drains every stream it
\* makes: a step that can be taken is taken.
SpecCompletion == InitCompletion /\ [][NextCompletion]_vars /\ WF_vars(NextCompletion)

(***************************************************************************)
(* The window data specification: one WithWindowData instance asked for    *)
(* the window data of the assets while the sessions go by.                 *)
(***************************************************************************)
\* sessions of the run
MaxSessions == 3

\* lookups of the run
MaxLookups == 4

InitWindowData ==
    /\ window_data_cache = ExpiringCache
    /\ current_session = 1
    /\ history_calls = 0
    /\ lookups = <<>>
    /\ CommissionOff
    /\ ProcessOrderOff
    /\ SimulateOff
    /\ InterleavedOff

\* mean_volume, volatility = self._get_window_data(data, asset, window_length)
GetWindowData(asset) ==
    /\ Len(lookups) < MaxLookups
    /\ LET got == get_window_data(window_data_cache, current_session, asset,
                                  WindowLength)
       IN  /\ window_data_cache' = got.cache
           /\ history_calls' = history_calls + 2 * got.fetches
           /\ lookups' = Append(lookups, [asset |-> asset, session |-> current_session,
                                         values |-> got.values, fetches |-> got.fetches])
    /\ UNCHANGED <<current_session, commVars, poVars, simVars, ilVars>>

\* the clock of the backtest goes to the next session
NextSession ==
    /\ current_session < MaxSessions
    /\ current_session' = current_session + 1
    /\ UNCHANGED <<window_data_cache, history_calls, lookups, commVars, poVars,
                   simVars, ilVars>>

NextWindowData ==
    \/ \E asset \in Assets : GetWindowData(asset)
    \/ NextSession

SpecWindowData == InitWindowData /\ [][NextWindowData]_vars

(***************************************************************************)
(* The interleaved specification: the simulate streams of two assets, made *)
(* by one slippage model instance for the same bar time, and a consumer    *)
(* that asks either stream for its next pair in any order.                 *)
(***************************************************************************)
Streams == {1, 2}

StreamBars == {Bar(0, 2), Bar(4, 2), Bar(8, 2)}

StreamOrderTemplates ==
    {Order(2, 0, None, None, "CL"), Order(-1, 0, None, None, "CL")}

StreamOrderLists ==
    UNION {[1..n -> StreamOrderTemplates] : n \in 1..MaxOrders}

\* gen = self.simulate(data, asset, orders_for_asset): nothing of the body has
\* run yet
NewStream(bar, orders_for_asset) ==
    [orders |-> orders_for_asset, bar |-> bar, pc |-> "created", idx |-> 1,
     emitted |-> <<>>, reads |-> <<>>]

InitInterleaved ==
    /\ shared_model \in SlippageModels
    /\ shared_volume_for_bar = 0
    /\ streams \in [Streams -> {NewStream(bar, o) : bar \in StreamBars,
                                                    o \in StreamOrderLists}]
    /\ CommissionOff
    /\ ProcessOrderOff
    /\ SimulateOff
    /\ WindowDataOff

\* The first next(gen): the body starts, resets the counter, and returns at
\* once for a bar without volume or close price; otherwise the loop runs.
stream_start(s) ==
    /\ streams[s].pc = "created"
    /\ LET ran == IF BarIsSkipped(streams[s].bar)
                  THEN [pc |-> "ended", orders |-> streams[s].orders, idx |-> 1,
                        volume_for_bar |-> 0, txn |-> <<>>, reads |-> <<>>]
                  ELSE simulate_loop(shared_model, 0, streams[s].bar,
                                     streams[s].orders, 1, 0, <<>>)
       IN  /\ shared_volume_for_bar' = ran.volume_for_bar
           /\ streams' = [streams EXCEPT ![s] = StreamAfter(@, ran)]
    /\ UNCHANGED <<shared_model, commVars, poVars, simVars, winVars>>

\* A later next(gen): the consumer has added the transaction it was handed to
\* its order, and the loop runs on behind the yield.
stream_resume(s) ==
    /\ streams[s].pc = "yielded"
    /\ LET stream == streams[s]
           last == stream.emitted[Len(stream.emitted)]
           filled == [stream.orders EXCEPT ![stream.idx].filled = @ + last.amount]
           ran == simulate_loop(shared_model, shared_volume_for_bar, stream.bar,
                                filled, stream.idx + 1, StreamVolume(stream),
                                stream.reads)
       IN  /\ shared_volume_for_bar' = ran.volume_for_bar
           /\ streams' = [streams EXCEPT ![s] = StreamAfter(@, ran)]
    /\ UNCHANGED <<shared_model, commVars, poVars, simVars, winVars>>

NextInterleaved ==
    \/ \E s \in Streams : stream_start(s)
    \/ \E s \in Streams : stream_resume(s)

SpecInterleaved == InitInterleaved /\ [][NextInterleaved]_vars

(***************************************************************************)
(* Claims about the commission models (specification SpecCommission).      *)
(***************************************************************************)
PerUnitKinds == {"PerShare", "PerContract"}

\* The cost per unit and the one-time exchange fee the model charges the order.
CostPerUnit ==
    IF commission_model.kind = "PerShare"
    THEN commission_model.cost_per_share
    ELSE PerContract_cost_per_contract(commission_model, c_order).value

ExchangeFee ==
    IF commission_model.kind = "PerShare"
    THEN 0
    ELSE PerContract_exchange_fee(commission_model, c_order).value

\* Units filled by the first i transactions of the order.
UnitsAfter(i) == SeqSum([k \in 1..i |-> Abs(c_txns[k].amount)])

\* What one calculate call returns for one transaction of all the units
\* filled so far, on a fresh order.
SingleShotCharge ==
    calculate(commission_model,
              [c_order EXCEPT !.filled = 0, !.commission = 0],
              [amount |-> c_order.filled, price |-> 1]).value

\* C1: for the Per-Unit models (PerShare, PerContract) and an order of either
\* direction filled by any sequence of transactions, the sum of the charges
\* that calculate returned equals the single-shot charge for the units filled,
\* max(min_trade_cost, U * cost_per_unit + exchange_fee).
C1_CommissionAdditivity ==
    (commission_model.kind \in PerUnitKinds /\ c_txns # <<>>)
        => /\ SeqSum(c_charges) = SingleShotCharge
           /\ SingleShotCharge = Max(commission_model.min_trade_cost,
                                     UnitsAfter(Len(c_txns)) * CostPerUnit + ExchangeFee)

\* C2: every call of calculate of every commission model returns a
\* value >= 0, for buy and sell orders alike, so the order's cumulative
\* commission never decreases.
C2_ChargeNonNegative ==
    \A i \in 1..Len(c_charges) : c_charges[i] >= 0

\* C3: for the Per-Unit model, once any commission has been charged the
\* order's cumulative commission is never below min_trade_cost; it is exactly
\* min_trade_cost when the order is complete while units * cost_per_unit +
\* exchange_fee is still below the minimum; the minimum is charged on the first
\* transaction and every later transaction is charged 0 while the per-unit
\* running total is below the minimum.
C3_MinimumEnforcement ==
    (commission_model.kind \in PerUnitKinds \cup {"PerFutureTrade"})
        => LET min_trade_cost == commission_model.min_trade_cost
               RunningTotal(i) == UnitsAfter(i) * CostPerUnit + ExchangeFee
           IN  /\ (\E i \in 1..Len(c_charges) : c_charges[i] # 0)
                      => c_order.commission >= min_trade_cost
               /\ (c_txns # <<>> /\ OpenAmount(c_order) = 0
                       /\ RunningTotal(Len(c_txns)) < min_trade_cost)
                      => c_order.commission = min_trade_cost
               /\ \A i \in 1..Len(c_charges) :
                      RunningTotal(i) < min_trade_cost
                          => c_charges[i] = (IF i = 1 THEN min_trade_cost ELSE 0)

\* C3 witness: a sell order completed by two transactions whose per-unit
\* total stays below the minimum: the first was charged the minimum, the
\* second nothing.
C3_Witness ==
    /\ commission_model.kind \in PerUnitKinds
    /\ c_order.amount < 0
    /\ OpenAmount(c_order) = 0
    /\ Len(c_txns) = 2
    /\ CostPerUnit > 0
    /\ UnitsAfter(2) * CostPerUnit + ExchangeFee < commission_model.min_trade_cost
    /\ c_charges = <<commission_model.min_trade_cost, 0>>
    /\ c_order.commission = commission_model.min_trade_cost

PerTradeKinds == {"PerEquityTrade", "PerFutureTrade"}

\* A Per-Trade model has a flat cost for the order: the cost of
\* PerEquityTrade; for PerFutureTrade the float cost_per_trade, or the entry
\* of the order's root symbol in the user's map or else in the built-in table.
FlatCostDefined ==
    \/ commission_model.kind = "PerEquityTrade"
    \/ commission_model.exchange_fee.isfloat
    \/ c_order.root_symbol \in DOMAIN commission_model.exchange_fee.dict
    \/ c_order.root_symbol \in DOMAIN FUTURE_EXCHANGE_FEES_BY_SYMBOL

FlatCost ==
    IF commission_model.kind = "PerEquityTrade"
    THEN commission_model.cost
    ELSE IF commission_model.exchange_fee.isfloat
         THEN commission_model.exchange_fee.val
         ELSE IF c_order.root_symbol \in DOMAIN commission_model.exchange_fee.dict
              THEN commission_model.exchange_fee.dict[c_order.root_symbol]
              ELSE FUTURE_EXCHANGE_FEES_BY_SYMBOL[c_order.root_symbol]

\* C12: for PerEquityTrade and PerFutureTrade and an order of either
\* direction, the first transaction of the order is charged the flat cost and
\* every later one 0, so that the order's commission is the flat cost whatever
\* the number and the sizes of its transactions.
C12_PerTradeFlatCost ==
    (commission_model.kind \in PerTradeKinds /\ FlatCostDefined)
        => /\ ~c_raised
           /\ \A i \in 1..Len(c_charges) :
                  c_charges[i] = (IF i = 1 THEN FlatCost ELSE 0)
           /\ c_txns # <<>> => c_order.commission = FlatCost

\* The commissions an order may have been charged before a call.
CommissionsPaid == {0, 2, 150}

\* C13: the Per-Dollar model is stateless: every transaction is charged
\* |transaction.amount| * transaction.price * cost_per_dollar, and for one
\* transaction calculate returns the same value whatever the order's filled
\* amount and commission paid are.
C13_PerDollarStateless ==
    commission_model.kind = "PerDollar"
        => /\ \A i \in 1..Len(c_charges) :
                  c_charges[i] = Abs(c_txns[i].amount) * c_txns[i].price
                                     * commission_model.cost_per_dollar
           /\ \A n \in Amounts, price \in TxnPrices,
                 filled \in -MaxAmount..MaxAmount, commission \in CommissionsPaid :
                  calculate(commission_model,
                            [c_order EXCEPT !.filled = filled, !.commission = commission],
                            [amount |-> n, price |-> price])
                      = calculate(commission_model, c_order,
                                  [amount |-> n, price |-> price])

\* C13 witness: the second transaction of a sell order, charged in full
\* although the order has paid commission before.
C13_Witness ==
    /\ commission_model.kind = "PerDollar"
    /\ commission_model.cost_per_dollar > 0
    /\ c_order.amount < 0
    /\ Len(c_txns) = 2
    /\ c_charges[1] > 0
    /\ c_charges[2] = Abs(c_txns[2].amount) * c_txns[2].price
                          * commission_model.cost_per_dollar
    /\ c_charges[2] > 0

\* C14: when PerContract.calculate is called with per-root-symbol maps, a
\* root symbol that the user's map has gets the user's value; one that the
\* user's cost map lacks gets the default cost; one that the user's fee map
\* lacks gets the fee of the built-in table; and the call fails only for a
\* root symbol that neither the user's fee map nor the built-in table has.
C14_MissingConfigurationLookups ==
    (commission_model.kind \in {"PerContract", "PerFutureTrade"}
         /\ (c_txns # <<>> \/ c_raised))
        => LET cost == commission_model.cost_per_contract
               fee == commission_model.exchange_fee
               root_symbol == c_order.root_symbol
           IN  /\ ~cost.isfloat
                      => PerContract_cost_per_contract(commission_model, c_order)
                             = Returned(IF root_symbol \in DOMAIN cost.dict
                                        THEN cost.dict[root_symbol]
                                        ELSE DEFAULT_PER_CONTRACT_COST)
               /\ ~fee.isfloat
                      => PerContract_exchange_fee(commission_model, c_order)
                             = (IF root_symbol \in DOMAIN fee.dict
                                THEN Returned(fee.dict[root_symbol])
                                ELSE IF root_symbol \in DOMAIN FUTURE_EXCHANGE_FEES_BY_SYMBOL
                                     THEN Returned(FUTURE_EXCHANGE_FEES_BY_SYMBOL[root_symbol])
                                     ELSE KeyError)
               /\ c_raised
                      => /\ ~fee.isfloat
                         /\ root_symbol \notin DOMAIN fee.dict
                         /\ root_symbol \notin DOMAIN FUTURE_EXCHANGE_FEES_BY_SYMBOL

(***************************************************************************)
(* Claims about simulate (specification Spec).                             *)
(***************************************************************************)
\* Units of the transactions yielded so far by the current simulate call.
EmittedVolume == SeqSum([k \in 1..Len(emitted) |-> Abs(emitted[k].amount)])

\* C4: in one simulate call of a Volume-Share model, the sum of
\* |transaction.amount| over the emitted transactions never exceeds
\* volume_limit * bar_volume.
C4_VolumeLimitCap ==
    slippage.kind = "VolumeSlippage"
        => EmittedVolume * slippage.volume_limit[2]
               <= slippage.volume_limit[1] * current_bar.volume

\* C4 witness: two orders were filled in one bar, together exactly up to the
\* cap, and the second one wanted more than it got.
C4_Witness ==
    /\ slippage.kind = "VolumeSlippage"
    /\ pc = "ended"
    /\ Len(emitted) = 2
    /\ EmittedVolume * slippage.volume_limit[2]
           = slippage.volume_limit[1] * current_bar.volume
    /\ OpenAmount(orders[2]) # 0

\* C5: once process_order has raised LiquidityExceeded for the order at
\* position i, no order at position i or later receives a transaction in that
\* bar, and the stream has ended normally (no error reaches the consumer).
C5_LiquidityExhaustedShortCircuit ==
    exceeded_at # 0
        => /\ pc = "ended"
           /\ \A k \in 1..Len(emitted) : emitted[k].pos < exceeded_at

\* C5 witness: the first order of two exhausted the bar; the second one, a
\* market order with an open amount, got nothing.
C5_Witness ==
    /\ exceeded_at = 1
    /\ Len(orders) = 2
    /\ orders[2].limit = None /\ orders[2].stop = None
    /\ OpenAmount(orders[2]) # 0
    /\ emitted = <<>>
    /\ pc = "ended"

\* C6: when the bar's volume is 0 or its close price is undefined, simulate
\* emits no pair and leaves the state of every order as it was.
C6_SkippedBarNoEffect ==
    (nbars > 0 /\ (current_bar.volume = 0 \/ current_bar.close = NaN))
        => /\ emitted = <<>>
           /\ orders = orders_at_start
           /\ pc = "ended"

\* C6 witness: a bar with volume but without close price, met by a partly
\* filled market order.
C6_Witness ==
    /\ nbars = 2
    /\ current_bar.volume # 0 /\ current_bar.close = NaN
    /\ pc = "ended"
    /\ \E i \in 1..Len(orders) :
           /\ orders[i].limit = None /\ orders[i].stop = None
           /\ orders[i].filled # 0
           /\ OpenAmount(orders[i]) # 0

\* C10: over any sequence of drained bars, every order has
\* 0 <= |filled| <= |requested|, and filled has the sign of the direction.
C10_OrderFillInvariant ==
    \A i \in 1..Len(orders) :
        /\ Abs(orders[i].filled) <= Abs(orders[i].amount)
        /\ orders[i].filled * Direction(orders[i]) >= 0

\* C10 witness: an order partly filled in an earlier bar is completed in
\* this one.
C10_Witness ==
    \E i \in 1..Len(orders) :
        /\ orders_at_start[i].filled # 0
        /\ OpenAmount(orders_at_start[i]) # 0
        /\ orders[i].filled = orders[i].amount
        /\ orders[i].amount < 0

\* C11: with every stream drained before the next simulate call, each call
\* starts with volume_for_bar = 0, so the fills of an earlier bar never reduce
\* the capacity of this one: until the call's first fill the counter is 0, and
\* under a Volume-Share model the first fill has the whole capacity of the bar,
\* min(floor(volume_limit * volume), |open amount|), also after a bar that
\* ended with the liquidity exhausted.
C11_PerBarCounterReset ==
    /\ (nbars > 0 /\ emitted = <<>>) => volume_for_bar = 0
    /\ (slippage.kind = "VolumeSlippage" /\ emitted # <<>>)
           => Abs(emitted[1].amount)
                  = Min(IntOf(slippage.volume_limit[1] * current_bar.volume,
                              slippage.volume_limit[2]),
                        Abs(OpenAmount(orders_at_start[emitted[1].pos])))

\* C11 witness: the second bar of a Volume-Share model.  The first bar filled
\* a part of the first order and so had nothing left for the second, a market
\* order (liquidity exhausted); in this bar the first order is filled again.
C11_Witness ==
    /\ slippage.kind = "VolumeSlippage"
    /\ nbars = 2
    /\ Len(orders) = 2
    /\ orders_at_start[1].filled # 0
    /\ orders_at_start[2].limit = None /\ orders_at_start[2].stop = None
    /\ orders_at_start[2].filled = 0
    /\ emitted # <<>>
    /\ emitted[1].pos = 1
    /\ volume_for_bar = Abs(emitted[1].amount)

\* Units of the first k transactions yielded by the current simulate call.
EmittedVolumeUpTo(k) == SeqSum([j \in 1..k |-> Abs(emitted[j].amount)])

\* C16: simulate emits the pairs in the order of the orders list, at most one
\* for a position; an order that is passed over before a later one is filled
\* had no open amount, was not triggered, or is a limit order (vetoed); and in
\* a bar of a Volume-Share model every fill is min(floor(capacity left by the
\* fills of the earlier positions), |open amount|), so that a later order
\* never changes what an earlier one receives.
C16_FillOrdering ==
    /\ \A k \in 1..Len(emitted) :
           /\ emitted[k].pos \in 1..Len(orders)
           /\ emitted[k].pos <= idx
           /\ k > 1 => emitted[k - 1].pos < emitted[k].pos
    /\ \A k \in 1..Len(emitted) : \A p \in 1..(emitted[k].pos - 1) :
           \/ \E j \in 1..(k - 1) : emitted[j].pos = p
           \/ OpenAmount(orders_at_start[p]) = 0
           \/ ~triggered(orders[p])
           \/ orders[p].limit # None
    /\ slippage.kind = "VolumeSlippage"
           => \A k \in 1..Len(emitted) :
                  Abs(emitted[k].amount)
                      = Min(IntOf(slippage.volume_limit[1] * current_bar.volume
                                      - slippage.volume_limit[2] * EmittedVolumeUpTo(k - 1),
                                  slippage.volume_limit[2]),
                            Abs(OpenAmount(orders_at_start[emitted[k].pos])))

\* C16 witness: two orders filled in one bar of a Volume-Share model, the
\* first one whole, the second one with what the first one left, less than
\* it asked for.
C16_Witness ==
    /\ slippage.kind = "VolumeSlippage"
    /\ Len(emitted) = 2
    /\ emitted[1].pos = 1 /\ emitted[2].pos = 2
    /\ Abs(emitted[1].amount) = Abs(OpenAmount(orders_at_start[1]))
    /\ Abs(emitted[2].amount) < Abs(OpenAmount(orders_at_start[2]))
    /\ pc = "ended"

\* C18: at every point of the consumption of one simulate stream,
\* volume_for_bar is the sum of |transaction.amount| of the pairs the call has
\* emitted so far: it is already increased when the pair is in the consumer's
\* hands, and an order that is skipped, not triggered, vetoed or not filled
\* leaves it as it is.
C18_CounterAccounting ==
    volume_for_bar = EmittedVolume

\* C18 witness: the second pair of a bar is in the consumer's hands, not yet
\* added to its order, and the counter has the units of both pairs.
C18_Witness ==
    /\ pc = "yielded"
    /\ Len(emitted) = 2
    /\ orders[2].filled = orders_at_start[2].filled
    /\ volume_for_bar = Abs(emitted[1].amount) + Abs(emitted[2].amount)
    /\ volume_for_bar >= 2

\* The order at position p was passed to process_order in this call only if
\* it had an open amount and was triggered after its trigger check.
WasEligible(p) ==
    /\ OpenAmount(orders_at_start[p]) # 0
    /\ triggered(orders[p])

\* C19: an order without open amount, and an order that is not triggered
\* after its trigger check against the bar's close price, is not passed to
\* process_order (it gets no transaction, it does not exhaust the bar, it
\* raises nothing), and the loop goes on after it: a stream that has ended
\* without exhausted liquidity has gone through all the orders.
C19_SkippedOrders ==
    /\ \A k \in 1..Len(emitted) : WasEligible(emitted[k].pos)
    /\ exceeded_at # 0 => WasEligible(exceeded_at)
    /\ pc = "raised" => WasEligible(idx)
    /\ (/\ pc = "ended" /\ exceeded_at = 0
        /\ current_bar.volume # 0 /\ current_bar.close # NaN)
           => idx = Len(orders) + 1

\* C19 witness: the first order was filled whole in an earlier bar and the
\* loop of this bar went past it to fill the second one.
C19_Witness ==
    /\ Len(orders) = 2
    /\ OpenAmount(orders_at_start[1]) = 0
    /\ Len(emitted) = 1
    /\ emitted[1].pos = 2
    /\ pc = "ended"
    /\ exceeded_at = 0

\* C20: when process_order returns no fill for an order, simulate goes on
\* to the next order with the stream open, the counter as it was and the
\* bar's liquidity not marked as exhausted, so the next order can be filled
\* from the same remaining capacity.
C20_NoFillIsNotExhaustion ==
    [][(/\ AtOrder
        /\ OpenAmount(orders[idx]) # 0
        /\ triggered(Checked)
        /\ Processed.kind = "nofill")
           => /\ pc' = "running"
              /\ idx' = idx + 1
              /\ volume_for_bar' = volume_for_bar
              /\ emitted' = emitted
              /\ exceeded_at' = exceeded_at]_vars

\* C20 witness: the first order, a triggered limit order with an open amount,
\* was vetoed by its limit price; the second order then got the first fill of
\* the bar, with the whole capacity of the bar to draw from.
C20_Witness ==
    /\ slippage.kind = "VolumeSlippage"
    /\ Len(orders) = 2
    /\ orders[1].limit # None /\ triggered(orders[1])
    /\ OpenAmount(orders[1]) # 0
    /\ orders[1].filled = orders_at_start[1].filled
    /\ Len(emitted) = 1
    /\ emitted[1].pos = 2
    /\ Abs(emitted[1].amount)
           = Min(IntOf(slippage.volume_limit[1] * current_bar.volume,
                       slippage.volume_limit[2]),
                 Abs(OpenAmount(orders_at_start[2])))

\* The deviation of the k-th fill's price from the bar's close, as a
\* fraction <<numerator, denominator>>.
Deviation(k) ==
    <<emitted[k].price[1] - current_bar.close * emitted[k].price[2], emitted[k].price[2]>>

\* C22: in a bar of a Volume-Share model every fill has the price
\* close + volume_share^2 * price_impact * sign(direction) * close, with
\* volume_share = min((units filled in the bar before + units of the fill)
\* / volume, volume_limit).  So a buy is not filled below the close nor a
\* sell above it, the deviation from the close is at most
\* volume_limit^2 * price_impact * close, and the deviation of a later fill of
\* the bar is not smaller than that of an earlier one.
C22_PriceImpact ==
    slippage.kind = "VolumeSlippage"
        => \A k \in 1..Len(emitted) :
               LET limit_n == slippage.volume_limit[1]
                   limit_d == slippage.volume_limit[2]
                   impact_n == slippage.price_impact[1]
                   impact_d == slippage.price_impact[2]
                   close == current_bar.close
                   total == EmittedVolumeUpTo(k - 1) + Abs(emitted[k].amount)
                   \* volume_share = share_n / share_d
                   share_d == current_bar.volume * limit_d
                   share_n == Min(total * limit_d, limit_n * current_bar.volume)
                   sign == IF emitted[k].amount < 0 THEN -1 ELSE 1
                   dev == Deviation(k)
               IN  /\ dev[2] > 0
                   /\ dev[1] * (impact_d * share_d * share_d)
                          = (sign * share_n * share_n * impact_n * close) * dev[2]
                   /\ emitted[k].amount > 0 => dev[1] >= 0
                   /\ emitted[k].amount < 0 => dev[1] <= 0
                   /\ Abs(dev[1]) * (limit_d * limit_d * impact_d)
                          <= (limit_n * limit_n * impact_n * close) * dev[2]
                   /\ \A j \in 1..(k - 1) :
                          Abs(Deviation(j)[1]) * dev[2] <= Abs(dev[1]) * Deviation(j)[2]

\* C22 witness: two buys filled in one bar; the second one has the greater
\* deviation, the largest there is: volume_limit^2 * price_impact * close.
C22_Witness ==
    /\ slippage.kind = "VolumeSlippage"
    /\ Len(emitted) = 2
    /\ emitted[1].amount > 0 /\ emitted[2].amount > 0
    /\ Deviation(1)[1] > 0
    /\ Deviation(1)[1] * Deviation(2)[2] < Deviation(2)[1] * Deviation(1)[2]
    /\ Deviation(2)[1] * (slippage.volume_limit[2] * slippage.volume_limit[2]
                              * slippage.price_impact[2])
           = (slippage.volume_limit[1] * slippage.volume_limit[1]
                  * slippage.price_impact[1] * current_bar.close) * Deviation(2)[2]

\* C23: when simulate drives the Futures Market Impact model over the
\* orders of an asset in one bar, the fills keep under one ceiling for the
\* bar: the sum of |transaction.amount| over the bar is at most
\* volume_limit * volume.
C23_FuturesSharedCeiling ==
    slippage.kind = "FuturesMarketImpact"
        => EmittedVolume * slippage.volume_limit[2]
               <= slippage.volume_limit[1] * current_bar.volume

\* What the current simulate call can still do, at most: three steps for
\* every order from the loop's position on (taken up, yielded, handed back),
\* less the ones the order at the position has behind it.
StepsLeft ==
    3 * (Len(orders) + 1 - idx)
        + (CASE pc = "running" -> 2 [] pc = "yielded" -> 1 [] OTHER -> 0)

\* C24: one simulate call over a finite list of orders comes to its end:
\* every step of the call and of its consumer brings it nearer to the end of
\* the list, it emits at most as many pairs as there are orders, and once
\* the stream has ended (end of the list, skipped bar, exhausted liquidity)
\* or raised, it emits nothing more.
C24_FiniteStream ==
    /\ [](Len(emitted) <= Len(orders) /\ StepsLeft >= 0)
    /\ [][nbars' = nbars => StepsLeft' < StepsLeft]_vars
    /\ [][(pc \in {"ended", "raised"} /\ nbars' = nbars) => emitted' = emitted]_vars

\* C24 witness: a stream that ended at the end of a list of two orders, after
\* a pair for each of them.
C24_Witness ==
    /\ pc = "ended"
    /\ exceeded_at = 0
    /\ Len(orders) = 2
    /\ Len(emitted) = 2
    /\ idx = 3

(***************************************************************************)
(* Claims about completion (specification SpecCompletion).                 *)
(***************************************************************************)
\* C25: the market order at the head of the list gets at least one unit in
\* every bar as long as it has an open amount, so it is completely filled in
\* the end; from then on it gets no transaction and its filled amount stays
\* the requested amount.
C25_EventualCompletion ==
    /\ [](pc = "ended" /\ nbars > 0 /\ OpenAmount(orders_at_start[1]) # 0
              => /\ emitted # <<>>
                 /\ emitted[1].pos = 1
                 /\ Abs(emitted[1].amount) >= 1
                 /\ Abs(orders[1].filled) > Abs(orders_at_start[1].filled))
    /\ <>(orders[1].filled = orders[1].amount)
    /\ [](OpenAmount(orders_at_start[1]) = 0
              => \A k \in 1..Len(emitted) : emitted[k].pos # 1)
    /\ [][orders[1].filled = orders[1].amount
              => orders'[1].filled = orders'[1].amount]_vars

\* C25 witness: the order at the head was filled over two bars, and the
\* stream of the second bar has ended.
C25_Witness ==
    /\ nbars = 2
    /\ pc = "ended"
    /\ orders_at_start[1].filled # 0
    /\ OpenAmount(orders_at_start[1]) # 0
    /\ orders[1].filled = orders[1].amount
    /\ emitted[1].pos = 1

(***************************************************************************)
(* Claims about the window data (specification SpecWindowData).            *)
(***************************************************************************)
\* The values of an asset's window at a session, computed from the daily bars.
WindowValues(asset, session) ==
    <<Mean(AllButLast(history(session, asset, "volume", WindowLength + 1))),
      AnnualizedVolatility(AllButLast(history(session, asset, "close",
                                              WindowLength + 1)))>>

\* The lookup j is the first one for its asset and session.
FirstOfSession(j) ==
    \A i \in 1..(j - 1) :
        ~(lookups[i].asset = lookups[j].asset /\ lookups[i].session = lookups[j].session)

\* C15: two lookups for the same asset and session return the same values,
\* and the later one fetches nothing; the first lookup for an asset in a new
\* session fetches the windows once and returns the values computed for that
\* session, not the ones of the session before.
C15_CacheCorrectness ==
    /\ \A j \in 1..Len(lookups) : \A i \in 1..(j - 1) :
           (lookups[i].asset = lookups[j].asset /\ lookups[i].session = lookups[j].session)
               => /\ lookups[j].values = lookups[i].values
                  /\ lookups[j].fetches = 0
    /\ \A j \in 1..Len(lookups) :
           FirstOfSession(j)
               => /\ lookups[j].fetches = 1
                  /\ lookups[j].values = WindowValues(lookups[j].asset, lookups[j].session)
    /\ history_calls
           = 2 * Cardinality({<<lookups[j].asset, lookups[j].session>> :
                                 j \in 1..Len(lookups)})

\* C15 witness: an asset is looked up twice in one session and again in the
\* next one, where its window has other values.
C15_Witness ==
    /\ Len(lookups) >= 3
    /\ lookups[1].asset = lookups[2].asset /\ lookups[2].asset = lookups[3].asset
    /\ lookups[1].session = lookups[2].session
    /\ lookups[3].session > lookups[2].session
    /\ lookups[2].fetches = 0
    /\ lookups[3].fetches = 1
    /\ lookups[3].values[1] # lookups[2].values[1]
    /\ lookups[3].values[2] # lookups[2].values[2]
    /\ lookups[3].values[2] # RatNaN
    /\ history_calls = 4

(***************************************************************************)
(* Claims about interleaved streams (specification SpecInterleaved).       *)
(***************************************************************************)
\* C17: when two simulate streams of one model instance are consumed in an
\* interleaved way (or one is left half-drained before the other starts),
\* the counter every stream's process_order calls find is the sum of the
\* units that stream itself has yielded: the fills and the start of one
\* stream never change the capacity of the other.
C17_CounterIsolation ==
    \A s \in DOMAIN streams : \A k \in 1..Len(streams[s].reads) :
        streams[s].reads[k].counter = streams[s].reads[k].own

(***************************************************************************)
(* Claims about process_order (specification SpecProcessOrder).            *)
(***************************************************************************)
\* C7: in the Volume-Share and Futures Market Impact models, every fill
\* returned for an order with a limit price has a price that is not worse
\* than the limit: not above it for a buy, not below it for a sell.
C7_LimitPriceVeto ==
    (/\ po_self.kind \in {"VolumeSlippage", "FuturesMarketImpact"}
     /\ po_order.limit # None
     /\ po_result.kind = "fill")
        => /\ ~(Direction(po_order) > 0 /\ RatGT(po_result.price, po_order.limit))
           /\ ~(Direction(po_order) < 0 /\ RatLT(po_result.price, po_order.limit))

\* C8: Fixed Spread process_order returns the price close + spread/2 for a
\* buy and close - spread/2 for a sell, and an execution volume equal to the
\* order's open amount (requested minus filled so far).
C8_FixedSpreadFill ==
    (po_self.kind = "FixedSlippage" /\ po_result # NotCalled /\ po_data.close # NaN)
        => /\ po_result.kind = "fill"
           /\ po_result.price
                  = <<2 * po_data.close
                          + (IF po_order.amount > 0 THEN po_self.spread
                                                    ELSE -po_self.spread), 2>>
           /\ po_result.volume = <<OpenAmount(po_order), 1>>

\* C9: for every slippage variant and every order state, a returned fill has
\* an execution volume with the sign of the order's direction and
\* |execution_volume| <= |order.open_amount|.
C9_ExecutionVolumeContract ==
    po_result.kind = "fill"
        => /\ po_result.volume[1] * Direction(po_order) > 0
           /\ Abs(po_result.volume[1])
                  <= Abs(OpenAmount(po_order)) * po_result.volume[2]

\* C21: with remaining = volume_limit * volume - volume_for_bar, the
\* Volume-Share process_order signals exhausted liquidity exactly when
\* remaining < 1 (so also for the first order of a bar with
\* volume_limit * volume < 1); otherwise the candidate fill is
\* floor(min(remaining, |open amount|)), and a returned fill has that many
\* units, a whole number >= 1, in the direction of the order.
C21_CandidateFill ==
    (po_self.kind = "VolumeSlippage" /\ po_result # NotCalled)
        => LET limit_n == po_self.volume_limit[1]
               limit_d == po_self.volume_limit[2]
               \* remaining, over the denominator limit_d
               remaining == limit_n * po_data.volume - limit_d * po_volume_for_bar
               candidate == Min(remaining, limit_d * Abs(OpenAmount(po_order))) \div limit_d
           IN  /\ po_result.kind = "LiquidityExceeded" <=> remaining < limit_d
               /\ (po_volume_for_bar = 0 /\ limit_n * po_data.volume < limit_d)
                      => po_result.kind = "LiquidityExceeded"
               /\ po_result.kind = "fill"
                      => /\ candidate >= 1
                         /\ po_result.volume = <<CopySign(candidate, Direction(po_order)), 1>>
               /\ (remaining >= limit_d /\ candidate < 1) => po_result.kind = "nofill"

\* C21 witness: a bar partly used up leaves less than the order's open
\* amount, and the fill is what is left.
C21_Witness ==
    /\ po_self.kind = "VolumeSlippage"
    /\ po_volume_for_bar > 0
    /\ po_result.kind = "fill"
    /\ Abs(po_result.volume[1]) < Abs(OpenAmount(po_order))
    /\ po_result.volume[1] < 0
    /\ po_self.volume_limit[2] * (po_volume_for_bar + Abs(po_result.volume[1]))
           = po_self.volume_limit[1] * po_data.volume

====
